---- MODULE Spec2Model ----
(***************************************************************************)
(* Model of streamlit_app.py, the "Hydromet Concepts Explorer".            *)
(*                                                                         *)
(* The script is re-executed from its first line on every widget           *)
(* interaction.  The state is what one execution leaves behind: the        *)
(* selected equation, the values of the sliders the selected branch        *)
(* renders, and the names the branch binds (time, infiltration_rate,       *)
(* cumulative_infiltration, or S, Ia, Q, F, infiltration).                 *)
(*                                                                         *)
(* Python floats are IEEE 754 binary64 numbers: every arithmetic operator   *)
(* of the script is one correctly rounded operation here, in the order the *)
(* script evaluates it, and a slider value such as 0.1 is the binary64     *)
(* nearest to it.                                                          *)
(***************************************************************************)
EXTENDS Integers, Sequences, FiniteSets, TLC

VARIABLES equation, widget, run, seen

vars == <<equation, widget, run, seen>>

(***************************************************************************)
(* Python floats: IEEE 754 binary64, round to nearest, ties to even.       *)
(* A finite number is s * (h * 2^28 + l) * 2^e with s in {-1, 0, 1} and,   *)
(* unless it is zero, a 53-bit significand: 2^24 <= h < 2^25, 0 <= l <     *)
(* 2^28.  The significand is kept in two halves because the integers of    *)
(* the model checker have 32 bits.  The exponent is not bounded: the       *)
(* script's values stay far inside the binary64 range.  The sign of zero   *)
(* is not kept: the script never divides by a float zero it computed.      *)
(***************************************************************************)
Fin(s, h, l, e) == [k |-> "fin", s |-> s, h |-> h, l |-> l, e |-> e]

Zero == Fin(0, 0, 0, 0)

Inf(s) == [k |-> "inf", s |-> s, h |-> 0, l |-> 0, e |-> 0]

NaN == [k |-> "nan", s |-> 0, h |-> 0, l |-> 0, e |-> 0]

IsFinite(x) == x.k = "fin"

IsZero(x) == x.k = "fin" /\ x.s = 0

RECURSIVE BitLen(_)
BitLen(n) == IF n = 0 THEN 0 ELSE 1 + BitLen(n \div 2)

\* (h * 2^28 + l) shifted right by d bits, and whether a one was shifted out.
ShiftRight(h, l, d) ==
    IF d = 0 THEN <<h, l, FALSE>>
    ELSE IF d < 28 THEN
        <<h \div 2^d, (l \div 2^d) + (h % 2^d) * 2^(28 - d), l % 2^d # 0>>
    ELSE IF d < 58 THEN
        <<0, h \div 2^(d - 28), (h % 2^(d - 28) # 0) \/ (l # 0)>>
    ELSE <<0, 0, (h # 0) \/ (l # 0)>>

\* The significand one above (h, l), renormalised when it reaches 2^53.
Successor(s, h, l, e) ==
    IF l + 1 < 2^28 THEN Fin(s, h, l + 1, e)
    ELSE IF h + 1 < 2^25 THEN Fin(s, h + 1, 0, e)
    ELSE Fin(s, 2^24, 0, e + 1)

\* (qh, ql) is what is left of a significand after its low bits rem were
\* dropped, half the weight of the lowest bit kept: round to nearest, ties to
\* even.
RoundNearestEven(s, qh, ql, e, rem, half, sticky) ==
    IF rem > half \/ (rem = half /\ (sticky \/ ql % 2 = 1))
    THEN Successor(s, qh, ql, e)
    ELSE Fin(s, qh, ql, e)

\* The d low bits of (h, l) are dropped, 1 <= d <= 4.
RoundShift(s, h, l, sticky, e, d) ==
    RoundNearestEven(s, h \div 2^d, (l \div 2^d) + (h % 2^d) * 2^(28 - d), e + d,
                     l % 2^d, 2^(d - 1), sticky)

\* (h, l) shifted left by n bits, 0 < n < 53.
ShiftLeft(s, h, l, e, n) ==
    IF n < 28
    THEN Fin(s, h * 2^n + l \div 2^(28 - n), (l % 2^(28 - n)) * 2^n, e - n)
    ELSE Fin(s, l * 2^(n - 28), 0, e - n)

\* The binary64 nearest to s * (h * 2^28 + l + f) * 2^e, where 0 < f < 1 if
\* sticky and f = 0 otherwise; h < 2^29, and h >= 2^25 if sticky.
RoundPack(s, h, l, sticky, e) ==
    IF h >= 2^25 THEN RoundShift(s, h, l, sticky, e, BitLen(h) - 25)
    ELSE IF h >= 2^24 THEN Fin(s, h, l, e)
    ELSE IF h = 0 /\ l = 0 THEN Zero
    ELSE ShiftLeft(s, h, l, e, 53 - (IF h > 0 THEN 28 + BitLen(h) ELSE BitLen(l)))

\* An int as a float (|n| < 2^31: exact).
FromNat(s, m) == RoundPack(s, m \div 2^28, m % 2^28, FALSE, 0)

FromInt(n) ==
    IF n = 0 THEN Zero ELSE FromNat(IF n > 0 THEN 1 ELSE -1, IF n > 0 THEN n ELSE -n)

One == Fin(1, 2^24, 0, -52)

FNeg(x) == [x EXCEPT !.s = -x.s]

FAbs(x) == [x EXCEPT !.s = IF x.s = 0 THEN 0 ELSE 1]

\* |x| < |y| for finite nonzero x and y.
MagLess(x, y) ==
    \/ x.e < y.e
    \/ x.e = y.e /\ (x.h < y.h \/ (x.h = y.h /\ x.l < y.l))

\* x < y for finite x and y.
FLess(x, y) ==
    IF x.s # y.s THEN x.s < y.s
    ELSE IF x.s = 0 THEN FALSE
    ELSE IF x.s = 1 THEN MagLess(x, y)
    ELSE MagLess(y, x)

\* x < y: every comparison with nan is false.
Less(x, y) ==
    CASE x.k = "nan" \/ y.k = "nan" -> FALSE
      [] x.k = "inf" /\ y.k = "inf" -> x.s < y.s
      [] x.k = "inf" -> x.s < 0
      [] y.k = "inf" -> y.s > 0
      [] OTHER -> FLess(x, y)

Greater(x, y) == Less(y, x)

Leq(x, y) == x.k # "nan" /\ y.k # "nan" /\ ~Less(y, x)

Geq(x, y) == Leq(y, x)

\* s * ((zh, zl) + f) * 2^e, where zl may lie outside 0 .. 2^28 - 1.
AddCarry(s, e, zh, zl, sticky) ==
    RoundPack(s, zh + zl \div 2^28, zl % 2^28, sticky, e)

\* s * ((xh, xl) + sign * (y + f)) * 2^e for y = <<yh, yl, sticky>>, where
\* 0 < f < 1 if sticky: a difference borrows one for f, and 1 - f is left.
AddSignificands(s, e, xh, xl, y, sign) ==
    AddCarry(s, e, xh + sign * y[1],
             xl + sign * y[2] - (IF sign < 0 /\ y[3] THEN 1 ELSE 0), y[3])

\* big + sml for finite nonzero numbers with |big| >= |sml|.  Both
\* significands get three more bits; sml is aligned to big and what is
\* shifted out of it is remembered in the sticky flag.
AddAligned(big, sml) ==
    AddSignificands(big.s, big.e - 3, big.h * 8 + big.l \div 2^25, (big.l % 2^25) * 8,
                    ShiftRight(sml.h * 8 + sml.l \div 2^25, (sml.l % 2^25) * 8,
                               big.e - sml.e),
                    big.s * sml.s)

AddOrdered(x, y, swap) ==
    AddAligned(IF swap THEN y ELSE x, IF swap THEN x ELSE y)

\* x + y
FAdd(x, y) ==
    CASE x.k = "nan" \/ y.k = "nan" -> NaN
      [] x.k = "inf" /\ y.k = "inf" -> IF x.s = y.s THEN x ELSE NaN
      [] x.k = "inf" -> x
      [] y.k = "inf" -> y
      [] x.s = 0 -> y
      [] y.s = 0 -> x
      [] OTHER -> AddOrdered(x, y, MagLess(x, y))

\* x - y
FSub(x, y) == FAdd(x, FNeg(y))

\* The 14-bit limbs of a significand, lowest first.
Limbs(x) == <<x.l % 2^14, x.l \div 2^14, x.h % 2^14, x.h \div 2^14>>

\* The columns of the long multiplication of two limb sequences.
Columns(a, b) ==
    <<a[1] * b[1],
      a[1] * b[2] + a[2] * b[1],
      a[1] * b[3] + a[2] * b[2] + a[3] * b[1],
      a[1] * b[4] + a[2] * b[3] + a[3] * b[2] + a[4] * b[1],
      a[2] * b[4] + a[3] * b[3] + a[4] * b[2],
      a[3] * b[4] + a[4] * b[3],
      a[4] * b[4]>>

\* The carries taken from column i upwards: every column but the last is
\* left with 14 bits.
RECURSIVE Carry(_, _, _)
Carry(c, i, carry) ==
    IF i = Len(c) THEN <<c[i] + carry>>
    ELSE <<(c[i] + carry) % 2^14>> \o Carry(c, i + 1, (c[i] + carry) \div 2^14)

\* The product p, seven limbs, cut below bit 51 and rounded.
MulPack(s, e, p) ==
    RoundPack(s,
              p[6] \div 2^9 + p[7] * 2^5,
              p[4] \div 2^9 + p[5] * 2^5 + (p[6] % 2^9) * 2^19,
              p[1] # 0 \/ p[2] # 0 \/ p[3] # 0 \/ p[4] % 2^9 # 0,
              e)

\* The product of two 53-bit significands, in 14-bit limbs, cut to its upper
\* 54 or 55 bits and rounded.
MulFinite(x, y) ==
    MulPack(x.s * y.s, x.e + y.e + 51, Carry(Columns(Limbs(x), Limbs(y)), 1, 0))

\* x * y
FMul(x, y) ==
    CASE x.k = "nan" \/ y.k = "nan" -> NaN
      [] x.k = "inf" -> IF y.s = 0 THEN NaN ELSE Inf(x.s * y.s)
      [] y.k = "inf" -> IF x.s = 0 THEN NaN ELSE Inf(x.s * y.s)
      [] x.s = 0 \/ y.s = 0 -> Zero
      [] OTHER -> MulFinite(x, y)

\* Long division by d = (dh, dl), a 53-bit divisor, in base 2^14.  st is the
\* remainder r < d and the quotient so far, <<rh, rl, qh, ql>>.  Remainder
\* and divisor are compared by their upper bits: the digit found this way is
\* at most the true digit and at most four below it.
DivCorrect(st, dh, dl) ==
    IF st[1] > dh \/ (st[1] = dh /\ st[2] >= dl)
    THEN IF st[2] >= dl
         THEN <<st[1] - dh, st[2] - dl, st[3], st[4] + 1>>
         ELSE <<st[1] - dh - 1, st[2] - dl + 2^28, st[3], st[4] + 1>>
    ELSE st

RECURSIVE DivCorrectTimes(_, _, _, _)
DivCorrectTimes(st, dh, dl, n) ==
    IF n = 0 THEN st ELSE DivCorrectTimes(DivCorrect(st, dh, dl), dh, dl, n - 1)

\* digit * d is taken from the remainder shifted by one digit.
DivSubtract(al, ah, bl, bh, qh, ql) ==
    IF al >= bl
    THEN <<(ah - bh) % 2^28, al - bl, qh, ql>>
    ELSE <<(ah - bh - 1) % 2^28, al - bl + 2^28, qh, ql>>

\* c is digit * d in 14-bit limbs, with the carries.
DivProduct(st, digit, c) ==
    DivSubtract((st[2] % 2^14) * 2^14,
                (st[1] % 2^14) * 2^14 + st[2] \div 2^14,
                c[2] * 2^14 + c[1],
                (c[4] % 2^14) * 2^14 + c[3],
                st[3] * 2^14 + st[4] \div 2^14,
                (st[4] % 2^14) * 2^14 + digit)

DivEstimate(st, dh, dl, digit) ==
    DivCorrectTimes(DivProduct(st, digit,
                               Carry(<<digit * (dl % 2^14), digit * (dl \div 2^14),
                                       digit * (dh % 2^14), digit * (dh \div 2^14)>>, 1, 0)),
                    dh, dl, 4)

DivDigit(st, dh, dl) ==
    DivEstimate(st, dh, dl, (st[1] * 8 + st[2] \div 2^25) \div (dh \div 2^11 + 1))

RECURSIVE DivDigits(_, _, _, _)
DivDigits(st, dh, dl, n) ==
    IF n = 0 THEN st ELSE DivDigits(DivDigit(st, dh, dl), dh, dl, n - 1)

DivPack(s, e, q) == RoundPack(s, q[3], q[4], q[1] # 0 \/ q[2] # 0, e)

\* x / y for finite nonzero x and y: 56 or 57 bits of the quotient, rounded;
\* a remainder makes the quotient inexact.
DivFinite(x, y) ==
    DivPack(x.s * y.s, x.e - y.e - 56,
            DivDigits(DivCorrect(<<x.h, x.l, 0, 0>>, y.h, y.l), y.h, y.l, 4))

\* x / y on numpy arrays and numpy scalars: a zero divisor gives inf or nan
\* (and a RuntimeWarning), never an exception.
NpDiv(x, y) ==
    CASE x.k = "nan" \/ y.k = "nan" -> NaN
      [] x.k = "inf" -> IF y.k = "inf" THEN NaN ELSE Inf(x.s * (IF y.s < 0 THEN -1 ELSE 1))
      [] y.k = "inf" -> Zero
      [] y.s = 0 -> IF x.s = 0 THEN NaN ELSE Inf(x.s)
      [] x.s = 0 -> Zero
      [] OTHER -> DivFinite(x, y)

\* x / y on Python scalars raises ZeroDivisionError for a zero divisor.
ZeroDivisionError == [k |-> "raise", s |-> 0, h |-> 0, l |-> 0, e |-> 0]

PyDiv(x, y) ==
    IF y.s = 0 THEN ZeroDivisionError
    ELSE IF x.s = 0 THEN Zero
    ELSE DivFinite(x, y)

Raised(x) == x.k = "raise"

\* A decimal literal n / 10^p, as Python reads it: the nearest binary64.
Dec(n, p) == IF n = 0 THEN Zero ELSE DivFinite(FromInt(n), FromInt(10^p))

\* One more bit of a square root: the trial subtrahend t = 4 * q + 1 is
\* taken from the remainder r if it fits.
SqrtTry(mh, ml, rh, rl, th, tl, qh, ql) ==
    IF rh > th \/ (rh = th /\ rl >= tl)
    THEN IF rl >= tl
         THEN <<mh, ml, rh - th, rl - tl, qh, ql + 1>>
         ELSE <<mh, ml, rh - th - 1, rl - tl + 2^28, qh, ql + 1>>
    ELSE <<mh, ml, rh, rl, qh, ql>>

\* st is what is left of the radicand, the remainder and the root so far,
\* <<mh, ml, rh, rl, qh, ql>>; two bits of the radicand are taken into the
\* remainder.
SqrtStep(st) ==
    SqrtTry((st[1] % 2^24) * 4 + st[2] \div 2^26,
            (st[2] % 2^26) * 4,
            4 * st[3] + (4 * st[4]) \div 2^28,
            ((4 * st[4]) % 2^28) + st[1] \div 2^24,
            4 * st[5] + (4 * st[6]) \div 2^28,
            ((4 * st[6]) % 2^28) + 1,
            2 * st[5] + (2 * st[6]) \div 2^28,
            (2 * st[6]) % 2^28)

\* n more bits.
RECURSIVE SqrtBits(_, _)
SqrtBits(st, n) ==
    IF n = 1 THEN SqrtStep(st)
    ELSE LET upper == SqrtBits(st, n \div 2)
         IN  IF upper[1] >= 0 THEN SqrtBits(upper, n - n \div 2) ELSE upper

\* The significand with an even exponent: a 54-bit radicand.
Radicand(x) ==
    IF x.e % 2 = 1
    THEN <<2 * x.h + (2 * x.l) \div 2^28, (2 * x.l) % 2^28, 0, 0, 0, 0>>
    ELSE <<x.h, x.l, 0, 0, 0, 0>>

SqrtPack(q, e) == RoundPack(1, q[5], q[6], q[3] # 0 \/ q[4] # 0, e)

\* np.sqrt(x): correctly rounded, as IEEE 754 requires.  The root has 55
\* bits.
NpSqrt(x) ==
    CASE x.k = "nan" -> NaN
      [] x.k = "inf" -> IF x.s > 0 THEN x ELSE NaN
      [] x.s = 0 -> Zero
      [] x.s < 0 -> NaN
      [] OTHER -> SqrtPack(SqrtBits(Radicand(x), 55), (x.e - (x.e % 2)) \div 2 - 28)

\* time ** (-0.5): the reciprocal of the square root.  The library's pow is
\* within one unit in the last place of this.
NpPowNegHalf(x) == NpDiv(One, NpSqrt(x))

Half == Fin(1, 2^24, 0, -53)

\* The integer nearest to a finite x with |x| < 2^27.
RoundToInt(x) ==
    IF x.s = 0 \/ x.e < -54 THEN 0
    ELSE x.s * ((ShiftRight(x.h, x.l, -x.e - 1)[2] + 1) \div 2)

\* 1 / ln 2, and ln 2 in two parts: the upper part has few enough bits for
\* its product with a small integer to be exact.
INVLN2 == Fin(1, 24204406, 86737662, -52)

LN2HI == Fin(1, 23258159, 249561088, -53)

LN2LO == Fin(1, 27500275, 91831414, -85)

\* 1 / j! for j = 0 .. 14
InvFactorial ==
    <<One, One, Half, Fin(1, 22369621, 89478485, -55), Fin(1, 22369621, 89478485, -57),
      Fin(1, 17895697, 17895697, -59), Fin(1, 23860929, 113339415, -62),
      Fin(1, 27269633, 167878682, -65), Fin(1, 27269633, 167878682, -68),
      Fin(1, 24239674, 89573172, -71), Fin(1, 19391739, 125345628, -74),
      Fin(1, 28206166, 133514468, -78), Fin(1, 18804110, 267966616, -81),
      Fin(1, 23143521, 61369609, -85), Fin(1, 26449738, 146832541, -89)>>

\* c[1] + r * (c[2] + r * (... + r * c[j + 1])), by Horner's rule.
RECURSIVE ExpSeries(_, _, _, _)
ExpSeries(r, c, j, acc) ==
    IF j < 0 \/ ~IsFinite(acc) THEN acc
    ELSE ExpSeries(r, c, j - 1, FAdd(FMul(acc, r), c[j + 1]))

\* x - n * ln 2
ExpArgument(x, n) == FSub(FSub(x, FMul(n, LN2HI)), FMul(n, LN2LO))

ExpScale(p, n) == [p EXCEPT !.e = @ + n]

ExpReduced(x, n) ==
    ExpScale(ExpSeries(ExpArgument(x, FromInt(n)), InvFactorial, Len(InvFactorial) - 1, Zero), n)

\* exp(x) = 2^n * exp(r) with x = n * ln 2 + r and |r| <= (ln 2) / 2.  The
\* result is within a few units in the last place of e^x, as the library's
\* is; exp(0) is exactly 1.
ExpFinite(x) == ExpReduced(x, RoundToInt(FMul(x, INVLN2)))

\* np.exp(x)
NpExp(x) ==
    CASE x.k = "nan" -> NaN
      [] x.k = "inf" -> IF x.s > 0 THEN x ELSE Zero
      [] FLess(FromInt(709), x) -> Inf(1)
      [] FLess(x, FromInt(-708)) -> Zero
      [] OTHER -> ExpFinite(x)

(***************************************************************************)
(* Widgets.  A slider holds min + i * step, and its value is the binary64  *)
(* nearest to that decimal.  For each slider the model explores its        *)
(* default, its minimum and n further positions spread up to its maximum.  *)
(* Sliders are counted in steps: 0.1 is Dec(1, 1), 0.01 is Dec(1, 2).      *)
(***************************************************************************)
\* Positions of the sliders of the Green-Ampt and SCS branches.
Samples == 1

\* Positions of the sliders of the Philip and Horton branches, which take a
\* square root or an exponential at every point of the grid.
CoarseSamples == 0

Positions(lo, hi, dflt, n) ==
    {dflt} \cup {lo + (i * (hi - lo)) \div (IF n = 0 THEN 1 ELSE n) : i \in 0..n}

Equations == {"Green-Ampt", "Philip", "Horton", "SCS Curve Number"}

\* st.slider(label, 0.1, 10.0, 1.0, 0.1)
KsValues == {Dec(n, 1) : n \in Positions(1, 100, 10, Samples)}

\* st.slider(label, 5.0, 50.0, 20.0, 1.0)
psiValues == {FromInt(n) : n \in Positions(5, 50, 20, Samples)}

\* st.slider(label, 0.1, 0.5, 0.2, 0.01)
theta_iValues == {Dec(n, 2) : n \in Positions(10, 50, 20, Samples)}

\* st.slider(label, 0.3, 0.6, 0.5, 0.01)
theta_sValues == {Dec(n, 2) : n \in Positions(30, 60, 50, Samples)}

\* st.slider(label, 0.1, 5.0, 1.0, 0.1)
SValues == {Dec(n, 1) : n \in Positions(1, 50, 10, CoarseSamples)}

\* st.slider(label, 0.1, 10.0, 1.0, 0.1)
KValues == {Dec(n, 1) : n \in Positions(1, 100, 10, CoarseSamples)}

\* st.slider(label, 0.1, 20.0, 10.0, 0.1)
f0Values == {Dec(n, 1) : n \in Positions(1, 200, 100, CoarseSamples)}

\* st.slider(label, 0.01, 5.0, 1.0, 0.01)
fcValues == {Dec(n, 2) : n \in Positions(1, 500, 100, CoarseSamples)}

\* st.slider(label, 0.1, 5.0, 1.0, 0.1)
kValues == {Dec(n, 1) : n \in Positions(1, 50, 10, CoarseSamples)}

\* st.slider(label, 0.1, 20.0, 5.0, 0.1)
PValues == {Dec(n, 1) : n \in Positions(1, 200, 50, Samples)}

\* st.slider(label, 30, 100, 70, 1): an int slider.
CNValues == Positions(30, 100, 70, Samples)

\* st.slider(label, 0.05, 0.3, 0.2, 0.01)
Ia_ratioValues == {Dec(n, 2) : n \in Positions(5, 30, 20, Samples)}

\* The values the sliders of a branch hold when the branch is first rendered:
\* a widget that was not rendered in the previous run starts from its default.
Defaults(eq) ==
    CASE eq = "Green-Ampt" ->
            [Ks |-> Dec(10, 1), psi |-> FromInt(20),
             theta_i |-> Dec(20, 2), theta_s |-> Dec(50, 2)]
      [] eq = "Philip" -> [S |-> Dec(10, 1), K |-> Dec(10, 1)]
      [] eq = "Horton" -> [f0 |-> Dec(100, 1), fc |-> Dec(100, 2), k |-> Dec(10, 1)]
      [] eq = "SCS Curve Number" ->
            [P |-> Dec(50, 1), CN |-> 70, Ia_ratio |-> Dec(20, 2)]

(***************************************************************************)
(* numpy.                                                                  *)
(***************************************************************************)
\* An ndarray holds values: an elementwise expression is evaluated once, for
\* every index, when the array is built.
Array(a) == SubSeq(a, 1, Len(a))

\* np.linspace(start, stop, num): arange(num) * step + start with
\* step = (stop - start) / (num - 1), the last element set to stop.
Linspace(start, stop, num) ==
    LET step == NpDiv(FSub(stop, start), FromInt(num - 1))
    IN  Array([i \in 1..num |->
                IF i = num THEN stop ELSE FAdd(FMul(FromInt(i - 1), step), start)])

\* An array the size of a that still holds what the previous run left in
\* cumulative_infiltration.
ZerosLikeStale(a) ==
    IF "cumulative_infiltration" \in DOMAIN run
    THEN run.cumulative_infiltration
    ELSE Array([i \in 1..Len(a) |-> Zero])

\* np.zeros_like(a)
ZerosLike(a) == Array([i \in 1..Len(a) |-> Zero])

NUM == 100

\* A grid of the same length from 24 down to 0.1.
TimeDescending == Linspace(FromInt(24), Dec(1, 1), NUM)

\* A grid of the same length that starts at 0.
TimeStartingAtZero == Linspace(Zero, FromInt(24), NUM)

\* np.linspace(0.1, 24, 100)
TimeFromTenth == Linspace(Dec(1, 1), FromInt(24), NUM)

\* np.linspace(0, 24, 100)
TimeFromZero == Linspace(Zero, FromInt(24), NUM)

(***************************************************************************)
(* The four branches of the script: the names each one binds.              *)
(***************************************************************************)
\* F = Ks + time
GreenAmptFSum(Ks, t) == FAdd(Ks, t)

\* F = Ks * time, one element
GreenAmptF(Ks, t) == FMul(Ks, t)

\* infiltration_rate = Ks * (1 + (psi * delta_theta) / F), one element
GreenAmptRate(Ks, psi_delta_theta, F) ==
    FMul(Ks, FAdd(One, NpDiv(psi_delta_theta, F)))

GreenAmpt(w) ==
    LET delta_theta == FSub(w.theta_s, w.theta_i)
        time == TimeFromTenth
        F == Array([i \in 1..Len(time) |-> GreenAmptF(w.Ks, time[i])])
        psi_delta_theta == FMul(w.psi, delta_theta)
    IN  [delta_theta |-> delta_theta,
         time |-> time,
         F |-> F,
         infiltration_rate |->
            Array([i \in 1..Len(time) |-> GreenAmptRate(w.Ks, psi_delta_theta, F[i])]),
         cumulative_infiltration |-> F]

\* infiltration_rate = 0.5 * S * time**0.5 + K
PhilipRatePositivePower(half_S, K, t) == FAdd(FMul(half_S, NpSqrt(t)), K)

\* infiltration_rate = 0.5 * S * time**(-0.5) + K, one element
PhilipRate(half_S, K, t) == FAdd(FMul(half_S, NpPowNegHalf(t)), K)

\* cumulative_infiltration = S * np.sqrt(time) + K * time, one element
PhilipCumulative(S, K, t) == FAdd(FMul(S, NpSqrt(t)), FMul(K, t))

Philip(w) ==
    LET time == TimeFromTenth
        half_S == FMul(Half, w.S)
    IN  [time |-> time,
         infiltration_rate |->
            Array([i \in 1..Len(time) |-> PhilipRate(half_S, w.K, time[i])]),
         cumulative_infiltration |->
            Array([i \in 1..Len(time) |-> PhilipCumulative(w.S, w.K, time[i])])]

\* infiltration_rate = fc + (f0 - fc) * np.exp(k * time)
HortonRateGrowing(fc, f0_minus_fc, minus_k, t) ==
    FAdd(fc, FMul(f0_minus_fc, NpExp(FMul(FNeg(minus_k), t))))

\* infiltration_rate = fc + (f0 - fc) * np.exp(-k * time), one element
HortonRate(fc, f0_minus_fc, minus_k, t) ==
    FAdd(fc, FMul(f0_minus_fc, NpExp(FMul(minus_k, t))))

\* The body of the loop with the rate taken at the left end of the step.
HortonStepLeft(cumulative_infiltration, infiltration_rate, time, i) ==
    LET dt == FSub(time[i], time[i - 1])
    IN  [cumulative_infiltration EXCEPT
            ![i] = FAdd(cumulative_infiltration[i - 1], FMul(infiltration_rate[i - 1], dt))]

\* The body of the loop for one i (the 1-based index of the element written):
\*     dt = time[i] - time[i-1]
\*     cumulative_infiltration[i] = cumulative_infiltration[i-1] + infiltration_rate[i] * dt
HortonStep(cumulative_infiltration, infiltration_rate, time, i) ==
    LET dt == FSub(time[i], time[i - 1])
    IN  [cumulative_infiltration EXCEPT
            ![i] = FAdd(cumulative_infiltration[i - 1], FMul(infiltration_rate[i], dt))]

\* for i in range(lo, hi + 1): the iterations in increasing order of i.  The
\* range is split in halves, the second half starting from the array the first
\* half has written up to mid, so that the evaluation nests logarithmically.
RECURSIVE HortonLoop(_, _, _, _, _)
HortonLoop(cumulative_infiltration, infiltration_rate, time, lo, hi) ==
    IF lo > hi THEN cumulative_infiltration
    ELSE IF lo = hi THEN HortonStep(cumulative_infiltration, infiltration_rate, time, lo)
    ELSE LET mid == (lo + hi) \div 2
             written == HortonLoop(cumulative_infiltration, infiltration_rate, time, lo, mid)
         IN  IF mid \in DOMAIN written
             THEN HortonLoop(written, infiltration_rate, time, mid + 1, hi)
             ELSE written

Horton(w) ==
    LET time == TimeFromZero
        f0_minus_fc == FSub(w.f0, w.fc)
        minus_k == FNeg(w.k)
        infiltration_rate ==
            Array([i \in 1..Len(time) |-> HortonRate(w.fc, f0_minus_fc, minus_k, time[i])])
    IN  [time |-> time,
         infiltration_rate |-> infiltration_rate,
         cumulative_infiltration |->
            HortonLoop(ZerosLike(time), infiltration_rate, time, 2, Len(time))]

\* x ** 2 on a Python float: the square, rounded once.
PySquare(x) == FMul(x, x)

\* Q = (P - Ia)**2 / (P - Ia + S), whatever P and Ia are.
RunoffNoThreshold(P, Ia, S) ==
    PyDiv(PySquare(FSub(P, Ia)), FAdd(FSub(P, Ia), S))

\* if P > Ia: Q = (P - Ia)**2 / (P - Ia + S) else: Q = 0
Runoff(P, Ia, S) ==
    IF Greater(P, Ia)
    THEN PyDiv(PySquare(FSub(P, Ia)), FAdd(FSub(P, Ia), S))
    ELSE Zero

\* infiltration = Q - P
InfiltrationReversed(P, Q) == FSub(Q, P)

\* infiltration = P - Q
Infiltration(P, Q) == FSub(P, Q)

\* The SCS branch; it stops at the first division that raises.
\*     S = (25400 / CN) - 254;  S = S / 10;  Ia = Ia_ratio * S
\*     F = S * (P - Ia) / (P - Ia + S)
SCSCurveNumber(w) ==
    LET S_mm == PyDiv(FromInt(25400), FromInt(w.CN))
        S == PyDiv(FSub(S_mm, FromInt(254)), FromInt(10))
        Ia == FMul(w.Ia_ratio, S)
        Q == Runoff(w.P, Ia, S)
        F == PyDiv(FMul(S, FSub(w.P, Ia)), FAdd(FSub(w.P, Ia), S))
    IN  IF Raised(S_mm) \/ Raised(Q) \/ Raised(F)
        THEN [raised |-> "ZeroDivisionError"]
        ELSE [raised |-> "", S |-> S, Ia |-> Ia, Q |-> Q, F |-> F,
              infiltration |-> Infiltration(w.P, Q)]

\* One execution of the script from the top with the given widget values.
Script(eq, w) ==
    CASE eq = "Green-Ampt" -> GreenAmpt(w)
      [] eq = "Philip" -> Philip(w)
      [] eq = "Horton" -> Horton(w)
      [] eq = "SCS Curve Number" -> SCSCurveNumber(w)

\* The execution that follows a selection: the newly rendered sliders hold
\* their defaults.
FreshRun == [eq \in Equations |-> Script(eq, Defaults(eq))]

(***************************************************************************)
(* The session.  seen is a history variable: for every equation, the       *)
(* outcome of its first execution.                                         *)
(***************************************************************************)
Unseen == [known |-> FALSE, run |-> [raised |-> "never run"]]

Init ==
    /\ equation = "Green-Ampt"
    /\ widget = Defaults(equation)
    /\ run = FreshRun[equation]
    /\ seen = [eq \in Equations |->
                IF eq = equation THEN [known |-> TRUE, run |-> run] ELSE Unseen]

\* An interaction leaves new widget values, and the whole script runs again
\* with them.
Hold(eq, w) == equation' = eq /\ widget' = w /\ run' = Script(eq, w)

\* The selectbox: the sliders of the other branches are no longer rendered,
\* and those of the selected branch are rendered anew.
SelectEquation(eq) ==
    /\ eq # equation
    /\ equation' = eq
    /\ widget' = Defaults(eq)
    /\ run' = FreshRun[eq]

\* An interaction that changes no value (the rerun command of the menu).
Rerun == Hold(equation, widget)

\* A slider of the rendered branch is moved to another position.
Move(eq, w) == equation = eq /\ w # widget /\ Hold(eq, w)

SetKs(v) == Move("Green-Ampt", [widget EXCEPT !.Ks = v])

SetPsi(v) == Move("Green-Ampt", [widget EXCEPT !.psi = v])

SetThetaI(v) == Move("Green-Ampt", [widget EXCEPT !.theta_i = v])

SetThetaS(v) == Move("Green-Ampt", [widget EXCEPT !.theta_s = v])

SetS(v) == Move("Philip", [widget EXCEPT !.S = v])

SetK(v) == Move("Philip", [widget EXCEPT !.K = v])

SetF0(v) == Move("Horton", [widget EXCEPT !.f0 = v])

SetFc(v) == Move("Horton", [widget EXCEPT !.fc = v])

SetDecay(v) == Move("Horton", [widget EXCEPT !.k = v])

SetP(v) == Move("SCS Curve Number", [widget EXCEPT !.P = v])

SetCN(v) == Move("SCS Curve Number", [widget EXCEPT !.CN = v])

SetIaRatio(v) == Move("SCS Curve Number", [widget EXCEPT !.Ia_ratio = v])

Next ==
    \/ \E eq \in Equations : SelectEquation(eq) /\ UNCHANGED seen
    \/ Rerun /\ UNCHANGED seen
    \/ \E v \in KsValues : SetKs(v) /\ UNCHANGED seen
    \/ \E v \in psiValues : SetPsi(v) /\ UNCHANGED seen
    \/ \E v \in theta_iValues : SetThetaI(v) /\ UNCHANGED seen
    \/ \E v \in theta_sValues : SetThetaS(v) /\ UNCHANGED seen
    \/ \E v \in SValues : SetS(v) /\ UNCHANGED seen
    \/ \E v \in KValues : SetK(v) /\ UNCHANGED seen
    \/ \E v \in f0Values : SetF0(v) /\ UNCHANGED seen
    \/ \E v \in fcValues : SetFc(v) /\ UNCHANGED seen
    \/ \E v \in kValues : SetDecay(v) /\ UNCHANGED seen
    \/ \E v \in PValues : SetP(v) /\ UNCHANGED seen
    \/ \E v \in CNValues : SetCN(v) /\ UNCHANGED seen
    \/ \E v \in Ia_ratioValues : SetIaRatio(v) /\ UNCHANGED seen

Spec == Init /\ [][Next]_vars

\* The first outcome of each equation is remembered.
Remember ==
    seen' = IF seen[equation'].known THEN seen
            ELSE [seen EXCEPT ![equation'] = [known |-> TRUE, run |-> run']]

\* The session with its history, one or two sliders of each branch.
NextSeen ==
    \/ \E eq \in Equations : SelectEquation(eq) /\ Remember
    \/ Rerun /\ Remember
    \/ \E v \in KsValues : SetKs(v) /\ Remember
    \/ \E v \in theta_iValues : SetThetaI(v) /\ Remember
    \/ \E v \in SValues : SetS(v) /\ Remember
    \/ \E v \in f0Values : SetF0(v) /\ Remember
    \/ \E v \in PValues : SetP(v) /\ Remember
    \/ \E v \in CNValues : SetCN(v) /\ Remember
    \/ \E v \in Ia_ratioValues : SetIaRatio(v) /\ Remember

SpecIdem == Init /\ [][NextSeen]_vars

(***************************************************************************)
(* Properties of the script's outcome.  Every comparison is a comparison   *)
(* of binary64 values.                                                     *)
(***************************************************************************)
\* 2^k
TwoTo(k) == Fin(1, 2^24, 0, k - 52)

\* |x - y| <= tol
Within(x, y, tol) == Leq(FAbs(FSub(x, y)), tol)

NonDecreasing(a) == \A i \in 1..(Len(a) - 1) : Leq(a[i], a[i + 1])

NonIncreasing(a) == \A i \in 1..(Len(a) - 1) : Geq(a[i], a[i + 1])

StrictlyDecreasing(a) == \A i \in 1..(Len(a) - 1) : Greater(a[i], a[i + 1])

AllFinite(a) == \A i \in DOMAIN a : IsFinite(a[i])

ShowsSCS == equation = "SCS Curve Number" /\ run.raised = ""

\* C1: in the SCS branch Ia is Ia_ratio * S and S is 2540 / CN - 25.4 (up to
\* the rounding of the two ways to compute it); when P <= Ia the runoff Q is
\* exactly 0 and the infiltration is exactly P; when P > Ia the runoff is
\* (P - Ia)^2 / (P - Ia + S).
C1_Threshold ==
    equation = "SCS Curve Number" =>
        /\ run.raised = ""
        /\ Within(run.S, FSub(PyDiv(FromInt(2540), FromInt(widget.CN)), Dec(254, 1)),
                  TwoTo(-40))
        /\ run.Ia = FMul(widget.Ia_ratio, run.S)
        /\ Leq(widget.P, run.Ia) => run.Q = Zero /\ run.infiltration = widget.P
        /\ Greater(widget.P, run.Ia) =>
              run.Q = PyDiv(FMul(FSub(widget.P, run.Ia), FSub(widget.P, run.Ia)),
                            FAdd(FSub(widget.P, run.Ia), run.S))

\* The rainfall does not exceed the initial abstraction, and nothing runs off.
C1_Witness ==
    /\ ShowsSCS
    /\ Leq(widget.P, run.Ia)
    /\ run.Q = Zero
    /\ run.infiltration = widget.P
    /\ widget.P # Defaults(equation).P

\* C2: whatever the sliders of the SCS branch hold, the runoff Q is at least
\* 0 and the infiltration is P - Q.
C2_RunoffResult ==
    equation = "SCS Curve Number" =>
        /\ run.raised = ""
        /\ Geq(run.Q, Zero)
        /\ run.infiltration = FSub(widget.P, run.Q)

\* Some of the rain runs off and the rest infiltrates.
C2_Witness ==
    /\ ShowsSCS
    /\ Greater(run.Q, Zero)
    /\ Less(run.infiltration, widget.P)
    /\ run.infiltration = FSub(widget.P, run.Q)

\* C10: for every position of the sliders of the SCS branch no division
\* raises (CN # 0, P - Ia + S # 0), S >= 0, 0 <= Q <= P and
\* 0 <= infiltration <= P.
C10_Bounded ==
    equation = "SCS Curve Number" =>
        /\ run.raised = ""
        /\ widget.CN # 0
        /\ ~IsZero(FAdd(FSub(widget.P, run.Ia), run.S))
        /\ Geq(run.S, Zero)
        /\ Geq(run.Q, Zero) /\ Leq(run.Q, widget.P)
        /\ Geq(run.infiltration, Zero) /\ Leq(run.infiltration, widget.P)

ShowsHorton == equation = "Horton"

ShowsRateOverTime == equation \in {"Green-Ampt", "Philip"}

\* C3: the Horton branch accumulates its cumulative series with the right
\* endpoint of every interval: the first element is 0 and element i is
\* element i-1 plus the rate at i times the width of the interval from i-1
\* to i, the width being taken from the grid itself.
C3_RightEndpointSum ==
    ShowsHorton =>
        /\ run.cumulative_infiltration[1] = Zero
        /\ \A i \in 2..Len(run.time) :
              run.cumulative_infiltration[i] =
                  FAdd(run.cumulative_infiltration[i - 1],
                       FMul(run.infiltration_rate[i],
                            FSub(run.time[i], run.time[i - 1])))

\* A Horton run away from the default sliders has accumulated a positive
\* depth whose last element is made of the last rate.
C3_Witness ==
    /\ ShowsHorton
    /\ widget # Defaults(equation)
    /\ Greater(run.cumulative_infiltration[NUM], run.cumulative_infiltration[NUM - 1])
    /\ run.cumulative_infiltration[NUM] =
           FAdd(run.cumulative_infiltration[NUM - 1],
                FMul(run.infiltration_rate[NUM], FSub(run.time[NUM], run.time[NUM - 1])))

\* C4: the cumulative series of the Green-Ampt, Philip and Horton branches
\* never decreases along the grid, and the Horton series starts at 0.
C4_CumulativeGrows ==
    /\ ShowsRateOverTime \/ ShowsHorton => NonDecreasing(run.cumulative_infiltration)
    /\ ShowsHorton => run.cumulative_infiltration[1] = Zero

\* A Philip run away from the default sliders ends deeper than it starts.
C4_Witness ==
    /\ equation = "Philip"
    /\ widget # Defaults(equation)
    /\ NonDecreasing(run.cumulative_infiltration)
    /\ Greater(run.cumulative_infiltration[NUM], run.cumulative_infiltration[1])

\* C8 as stated: in the Horton branch the rate at t = 0 is exactly f0; with
\* f0 > fc the rate never increases and stays at or above fc; with f0 < fc
\* the rate increases monotonically and stays at or below fc; the cumulative
\* series is as long as the grid.
C8_HortonShape ==
    ShowsHorton =>
        /\ run.time[1] = Zero
        /\ run.infiltration_rate[1] = widget.f0
        /\ Greater(widget.f0, widget.fc) =>
              /\ NonIncreasing(run.infiltration_rate)
              /\ \A i \in DOMAIN run.infiltration_rate :
                    Geq(run.infiltration_rate[i], widget.fc)
        /\ Less(widget.f0, widget.fc) =>
              /\ NonDecreasing(run.infiltration_rate)
              /\ \A i \in DOMAIN run.infiltration_rate :
                    Leq(run.infiltration_rate[i], widget.fc)
        /\ Len(run.cumulative_infiltration) = Len(run.time)

\* C8: in the Horton branch the rate at t = 0 is fc + (f0 - fc) as binary64
\* computes it, which is f0 up to one rounding of a value no larger than the
\* sliders allow; with f0 > fc the rate never increases and stays at or above
\* fc; with f0 < fc the rate never decreases and stays at or below fc; the
\* cumulative series is as long as the grid.
C8_HortonShapeRounded ==
    ShowsHorton =>
        /\ run.time[1] = Zero
        /\ run.infiltration_rate[1] = FAdd(widget.fc, FSub(widget.f0, widget.fc))
        /\ Within(run.infiltration_rate[1], widget.f0, TwoTo(-47))
        /\ Greater(widget.f0, widget.fc) =>
              /\ NonIncreasing(run.infiltration_rate)
              /\ \A i \in DOMAIN run.infiltration_rate :
                    Geq(run.infiltration_rate[i], widget.fc)
        /\ Less(widget.f0, widget.fc) =>
              /\ NonDecreasing(run.infiltration_rate)
              /\ \A i \in DOMAIN run.infiltration_rate :
                    Leq(run.infiltration_rate[i], widget.fc)
        /\ Len(run.cumulative_infiltration) = Len(run.time)
        /\ Len(run.time) = NUM

\* The initial rate is below the final one, the rate grows towards fc and
\* its first element is not the f0 of the slider.
C8_Witness ==
    /\ ShowsHorton
    /\ Less(widget.f0, widget.fc)
    /\ run.infiltration_rate[1] # widget.f0
    /\ Less(run.infiltration_rate[1], run.infiltration_rate[NUM])
    /\ Leq(run.infiltration_rate[NUM], widget.fc)

\* C5 as stated: whatever the sliders hold, the rate of the Green-Ampt and of
\* the Philip branch strictly decreases along the grid.
C5_RateFalls == ShowsRateOverTime => StrictlyDecreasing(run.infiltration_rate)

\* C5: the rate of the Philip branch strictly decreases along the grid
\* whatever the sliders hold, and the rate of the Green-Ampt branch strictly
\* decreases along the grid whenever theta_s > theta_i.
C5_RateFallsWhenWetting ==
    /\ equation = "Philip" => StrictlyDecreasing(run.infiltration_rate)
    /\ equation = "Green-Ampt" /\ Greater(widget.theta_s, widget.theta_i) =>
          StrictlyDecreasing(run.infiltration_rate)

\* A Green-Ampt run away from the default sliders, with theta_s > theta_i,
\* ends at a lower rate than it starts.
C5_Witness ==
    /\ equation = "Green-Ampt"
    /\ widget # Defaults(equation)
    /\ Greater(widget.theta_s, widget.theta_i)
    /\ Greater(run.infiltration_rate[1], run.infiltration_rate[NUM])

====
